---- MODULE Spec2Model ----
(***************************************************************************)
(* The file-drop watcher of the Personal AI Employee:                      *)
(*   src/watchers/base_watcher.py        BaseWatcher                       *)
(*   src/watchers/filesystem_watcher.py  FileDropHandler, FileSystemWatcher*)
(*                                                                         *)
(* One watcher process has two threads that share processed_hashes:        *)
(*   "poll"    the main thread, FileSystemWatcher.run's while-loop;        *)
(*   "handler" the watchdog observer thread, FileDropHandler.on_created.   *)
(* The environment drops files, lets the day pass, interrupts or kills the *)
(* process and starts it again.                                            *)
(***************************************************************************)
EXTENDS Integers, Sequences, FiniteSets, TLC

(***************************************************************************)
(* Bounds of the model.                                                    *)
(***************************************************************************)
NumContents == 2    \* distinct byte contents a dropped file may have
MaxDay      == 1    \* days are 0..MaxDay
MaxDrops    == 2    \* files the environment drops in one behaviour
MaxQueue    == 1    \* created-events waiting for the handler thread
\* _save_state keeps the last 1000 ids (base_watcher.py:110); the model
\* scales the cap down so that a set larger than the cap is reachable.
StateCap    == 1
MaxDocLen   == 7    \* lines of an initial dashboard document
MaxPending  == 2    \* action files in Needs_Action at a time

Contents == 1 .. NumContents
Days     == 0 .. MaxDay

(***************************************************************************)
(* File names.  A name is Path.stem (a sequence of characters) and         *)
(* Path.suffix; its Path.name is the stem followed by the suffix.          *)
(***************************************************************************)
report_pdf == [stem |-> <<"r", ":">>, suffix |-> ".pdf"]
report_txt == [stem |-> <<"r", "_">>, suffix |-> ".txt"]
hidden     == [stem |-> <<".", "r">>, suffix |-> ""]
subfolder  == [stem |-> <<"d">>, suffix |-> ""]
Names      == {report_pdf, report_txt, hidden, subfolder}

\* A folder is a function from the names of its entries.  In the drop folder
\* an entry is the content of a regular file, or Dir for a directory.
Dir == 0

\* Path.is_file()
is_file(entry) == entry \in Contents

\* filepath.name.startswith('.')
startswith_dot(n) == Len(n.stem) > 0 /\ Head(n.stem) = "."

\* hashlib.md5 over the bytes of the file: equal digests for equal contents
calculate_hash(c) == <<"md5", c>>
Hashes == {calculate_hash(c) : c \in Contents}

(***************************************************************************)
(* BaseWatcher.sanitize_filename: every character of invalid_chars becomes *)
(* '_', then str.strip() removes the blanks at both ends.                  *)
(***************************************************************************)
invalid_chars == {"<", ">", ":", "\"", "/", "\\", "|", "?", "*"}

replace_invalid(name) ==
    [i \in 1 .. Len(name) |-> IF name[i] \in invalid_chars THEN "_" ELSE name[i]]

RECURSIVE lstrip(_)
lstrip(s) == IF s # <<>> /\ Head(s) = " " THEN lstrip(Tail(s)) ELSE s

RECURSIVE rstrip(_)
rstrip(s) ==
    IF s # <<>> /\ s[Len(s)] = " " THEN rstrip(SubSeq(s, 1, Len(s) - 1)) ELSE s

sanitize_filename(name) == rstrip(lstrip(replace_invalid(name)))

\* type_mapping.get(file_ext, 'unknown') of create_action_file
file_type_of(suffix) ==
    CASE suffix \in {".pdf", ".doc", ".docx", ".txt", ".md"} -> "document"
      [] suffix \in {".xls", ".xlsx", ".csv"}                -> "spreadsheet"
      [] suffix \in {".jpg", ".jpeg", ".png", ".gif"}        -> "image"
      [] suffix \in {".zip", ".rar"}                         -> "archive"
      [] OTHER                                               -> "unknown"

\* needs_action / f'FILE_{safe_name}_{timestamp[:10]}.md'
action_file_path(n, d) == <<"FILE", sanitize_filename(n.stem), d, ".md">>

\* the front matter create_action_file writes (size and size_human are read
\* off the copied bytes, which the model does not look into)
action_file_content(n, h, d) ==
    [type      |-> "file_drop",
     source    |-> n,
     destination |-> <<"Files", n>>,
     file_type |-> file_type_of(n.suffix),
     received  |-> d,
     priority  |-> "normal",
     status    |-> "pending",
     hash      |-> h]

(***************************************************************************)
(* The state file .watcher_state.json.  Its ids are those of the watchers  *)
(* that share the vault; the file-drop watcher itself never adds one.      *)
(***************************************************************************)
Absent    == [kind |-> "absent", processed_ids |-> <<>>]
Truncated == [kind |-> "truncated", processed_ids |-> <<>>]  \* opened with 'w', nothing dumped
\* json.dump({'processed_ids': ids_list, 'last_updated': ...}): the ids are a
\* JSON array, a sequence
Snapshot(ids) == [kind |-> "snapshot", processed_ids |-> ids]

\* a state file somebody else wrote: a JSON document that is no object, and
\* an object without the key processed_ids
NotAnObject == [kind |-> "array", processed_ids |-> <<>>]
NoIdsKey    == [kind |-> "object", processed_ids |-> <<>>]

StoredIds == {<<"msg", i>> : i \in 1 .. StateCap}

Threads == {"poll", "handler"}

VARIABLES
    drop,              \* the drop folder: name -> content of the file, or Dir
    files_dir,         \* vault/Files: name -> content
    needs_action,      \* vault/Needs_Action: action-file path -> front matter
    state_file,        \* .watcher_state.json
    day,               \* the date part of get_timestamp()
    processed_ids,     \* BaseWatcher.processed_ids
    processed_hashes,  \* FileSystemWatcher.processed_hashes
    pc,                \* where each thread is
    cur,               \* per thread: <<source_path, file_hash>> of process_file
    items,             \* poll thread: what is left of check_for_updates()'s list
    ids_list,          \* poll thread: ids_list of _save_state
    events,            \* created-events the observer has queued
    stopping,          \* KeyboardInterrupt was raised in the main thread
    dropped,           \* history: files dropped so far, per content
    created,           \* history: action files written, per hash
    failed,            \* history: items whose create_action_file returned None
    cycle_new          \* history: the new files in the drop folder when the
                       \*          running cycle called check_for_updates

VARIABLES
    dashboard,         \* vault/Dashboard.md: whether it exists, and its lines
    vault,             \* Pending_Approval, Approved, Done: folder -> file names
    processed_files,   \* Orchestrator.processed_files
    opc,               \* where the orchestrator process is
    omode,             \* "run" (the loop) or "once" (--once)
    pending,           \* pending of process_pending_items
    qwen,              \* the child process of subprocess.run
    cwd,               \* os.getcwd() of the orchestrator process
    original_dir,      \* original_dir of trigger_qwen
    last_dispatch,     \* history: outcome and return value of the last trigger_qwen
    last_refresh,      \* history: <<wrote, day>> of the last update_dashboard
    argv,              \* sys.argv[1:] of the orchestrator process
    default_vault,     \* whether the default path AI_Employee_Vault exists
    cycle_log          \* history: the steps of the running cycle, in order

orch_vars == <<dashboard, vault, processed_files, opc, omode, pending, qwen, cwd,
               original_dir, last_dispatch, last_refresh, argv, default_vault,
               cycle_log>>

vars == <<drop, files_dir, needs_action, state_file, day, processed_ids,
          processed_hashes, pc, cur, items, ids_list, events, stopping, dropped,
          created, failed, cycle_new, dashboard, vault, processed_files, opc,
          omode, pending, qwen, cwd, original_dir, last_dispatch, last_refresh,
          argv, default_vault, cycle_log>>

NoCur == <<>>

running == pc["poll"] # "stopped"

\* the function f extended or overwritten at k
Put(f, k, v) == [x \in DOMAIN f \cup {k} |-> IF x = k THEN v ELSE f[x]]

\* the function f without k
Remove(f, k) == [x \in DOMAIN f \ {k} |-> f[x]]

\* all orders in which a directory listing can enumerate the entries S
RECURSIVE Orders(_)
Orders(S) ==
    IF S = {} THEN {<<>>}
    ELSE UNION {{<<x>> \o o : o \in Orders(S \ {x})} : x \in S}

RECURSIVE Sum(_, _)
Sum(f, S) ==
    IF S = {} THEN 0
    ELSE LET x == CHOOSE y \in S : TRUE IN f[x] + Sum(f, S \ {x})

drops == Sum(dropped, DOMAIN dropped)

(***************************************************************************)
(* BaseWatcher._load_state: a missing file leaves processed_ids empty, a   *)
(* file json.load cannot parse is logged and leaves it empty as well.      *)
(***************************************************************************)
\* _load_state with its try/except of lines 95-103 removed
load_state_unguarded(file) ==
    IF file.kind = "absent"
    THEN [raised |-> FALSE, processed_ids |-> {}]
    ELSE IF file.kind \in {"truncated", "array"}
         THEN [raised |-> TRUE, processed_ids |-> {}]
         ELSE [raised |-> FALSE,
               processed_ids |-> {file.processed_ids[i] :
                                     i \in 1 .. Len(file.processed_ids)}]

\* line 94: exists(); line 97: json.load raises on a file that holds no
\* JSON document; line 98: state.get raises on a document that is not an
\* object and yields [] for an object without the key; set(...) drops the
\* order and the repetitions of the array; line 102: except Exception.
load_state(file) ==
    IF file.kind = "absent"
    THEN [raised |-> FALSE, processed_ids |-> {}]
    ELSE IF file.kind \in {"truncated", "array"}
         THEN [raised |-> FALSE, processed_ids |-> {}]
         ELSE [raised |-> FALSE,
               processed_ids |-> {file.processed_ids[i] :
                                     i \in 1 .. Len(file.processed_ids)}]

(***************************************************************************)
(* BaseWatcher._save_state, line 110: list(self.processed_ids)[-1000:].    *)
(* A Python set enumerates in an order that is unrelated to insertion, so  *)
(* the slice keeps the last StateCap ids of any order of the set.          *)
(***************************************************************************)
last_ids(ids) ==
    {SubSeq(o, IF Len(o) <= StateCap THEN 1 ELSE Len(o) - StateCap + 1, Len(o)) :
        o \in Orders(ids)}

\* check_for_updates as it would be if line 116 were dropped and the
\* call did not remember the hashes it has met so far
RECURSIVE check_for_updates_forgetful(_, _, _, _)
check_for_updates_forgetful(entries, folder, new_files, hashes) ==
    IF entries = <<>>
    THEN [new_files |-> new_files, processed_hashes |-> hashes]
    ELSE LET filepath  == Head(entries)
             file_hash == calculate_hash(folder[filepath])
         IN  IF is_file(folder[filepath]) /\ ~startswith_dot(filepath)
                  /\ file_hash \notin hashes
             THEN check_for_updates_forgetful(Tail(entries), folder,
                                              Append(new_files, filepath), hashes)
             ELSE check_for_updates_forgetful(Tail(entries), folder, new_files, hashes)

(***************************************************************************)
(* FileSystemWatcher.check_for_updates, for the listing `entries` of the   *)
(* drop folder `folder`: the list it returns and the processed_hashes it   *)
(* leaves behind.                                                          *)
(***************************************************************************)
RECURSIVE check_for_updates(_, _, _, _)
check_for_updates(entries, folder, new_files, hashes) ==
    IF entries = <<>>
    THEN [new_files |-> new_files, processed_hashes |-> hashes]
    ELSE LET filepath  == Head(entries)
             file_hash == calculate_hash(folder[filepath])
         IN  IF is_file(folder[filepath]) /\ ~startswith_dot(filepath)
             THEN IF file_hash \notin hashes
                  THEN check_for_updates(Tail(entries), folder,
                                         Append(new_files, filepath),
                                         hashes \cup {file_hash})
                  ELSE check_for_updates(Tail(entries), folder, new_files, hashes)
             ELSE check_for_updates(Tail(entries), folder, new_files, hashes)

(***************************************************************************)
(* The orchestrator (src/orchestrator.py).                                 *)
(*                                                                         *)
(* The dashboard document is the sequence of its lines, as                 *)
(* content.split('\n') yields them.  A line is <<text, pad>>, pad being 1  *)
(* when blanks surround the text; the table rows of the stats region carry *)
(* the count and the status label as well.                                 *)
(***************************************************************************)
Marker    == <<"## Quick Stats", 0>>
Separator == <<"---", 0>>
EmptyLine == <<"", 0>>
Text      == <<"text", 0>>

\* the line with blanks before and after it
padded(line) == <<line[1], 1>>

\* line.strip()
strip(line) == IF Len(line) = 2 THEN <<line[1], 0>> ELSE line

\* the label of the pending tasks as it would be without the Clear of line 156
pending_status_never_clear(n) == <<"item(s)", n>>

\* lines 156, 160, 164: the status labels
pending_status(n)  == IF n = 0 THEN <<"Clear">> ELSE <<"item(s)", n>>
approval_status(n) == IF n = 0 THEN <<"Clear">> ELSE <<"awaiting", n>>
today_status(n)    == IF n > 0 THEN <<"done", n>> ELSE <<"No activity">>

\* the stats as they would be without the closing separator of line 168
stats_lines_unterminated(pending_count, approval_count, done_today) ==
    << Marker,
       EmptyLine,
       <<"| Metric | Value | Status |", 0>>,
       <<"|--------|-------|--------|", 0>>,
       <<"| Pending Tasks |", 0, pending_count, pending_status(pending_count)>>,
       <<"| Awaiting Approval |", 0, approval_count, approval_status(approval_count)>>,
       <<"| Tasks Completed Today |", 0, done_today, today_status(done_today)>>,
       EmptyLine >>

\* lines 149-168
stats_lines(pending_count, approval_count, done_today) ==
    << Marker,
       EmptyLine,
       <<"| Metric | Value | Status |", 0>>,
       <<"|--------|-------|--------|", 0>>,
       <<"| Pending Tasks |", 0, pending_count, pending_status(pending_count)>>,
       <<"| Awaiting Approval |", 0, approval_count, approval_status(approval_count)>>,
       <<"| Tasks Completed Today |", 0, done_today, today_status(done_today)>>,
       EmptyLine,
       Separator >>

\* lines 172-186: copy the lines, the region from a start marker to the next
\* separator replaced by the new stats
RECURSIVE replace_stats(_, _, _, _, _)
replace_stats(lines, stats, new_lines, in_stats, stats_replaced) ==
    IF lines = <<>>
    THEN [new_lines |-> new_lines, stats_replaced |-> stats_replaced]
    ELSE LET line == Head(lines)
         IN  IF strip(line) = Marker
             THEN replace_stats(Tail(lines), stats, new_lines, TRUE, stats_replaced)
             ELSE IF in_stats /\ strip(line) = Separator /\ stats_replaced = FALSE
                  THEN replace_stats(Tail(lines), stats, new_lines \o stats, FALSE, TRUE)
                  ELSE IF ~in_stats
                       THEN replace_stats(Tail(lines), stats, Append(new_lines, line),
                                          in_stats, stats_replaced)
                       ELSE replace_stats(Tail(lines), stats, new_lines,
                                          in_stats, stats_replaced)

\* line 191: i > 5
InsertAfterLine == 5

\* lines 188-193: insert the stats after the first separator whose index
\* (from 0) is past InsertAfterLine, if there is one
insert_stats(new_lines, stats) ==
    LET hits == {i \in 1 .. Len(new_lines) :
                    strip(new_lines[i]) = Separator /\ i - 1 > InsertAfterLine}
    IN  IF hits = {} THEN new_lines
        ELSE LET i == CHOOSE h \in hits : \A k \in hits : h <= k
             IN  SubSeq(new_lines, 1, i) \o stats \o SubSeq(new_lines, i + 1, Len(new_lines))

\* line 195 and the next read of line 146 and 171: '\n'.join(new_lines)
\* written and split again; no line at all is read back as one empty line
join_split(new_lines) == IF new_lines = <<>> THEN <<EmptyLine>> ELSE new_lines

\* lines 170-195: the document update_dashboard writes
rewrite_dashboard(lines, stats) ==
    LET r == replace_stats(lines, stats, <<>>, FALSE, FALSE)
    IN  join_split(IF r.stats_replaced THEN r.new_lines
                   ELSE insert_stats(r.new_lines, stats))

(***************************************************************************)
(* The folders of the vault besides Needs_Action.  A file name is          *)
(* <<prefix, stem, date, suffix>>, as action_file_path builds it.          *)
(***************************************************************************)
Folders == {"Pending_Approval", "Approved", "Done"}

\* a name that holds the date of no day
NoDate == MaxDay + 1

approval_md   == <<"APPROVAL", <<"a">>, NoDate, ".md">>
approval_txt  == <<"APPROVAL", <<"a">>, NoDate, ".txt">>
hidden_md     == <<".", <<"a">>, NoDate, ".md">>
done_md       == <<"FILE", <<"a">>, 0, ".md">>

suffix(f) == f[4]
name_startswith_dot(f) == f[1] = "."
date_in_name(f, d) == f[3] = d

\* lines 107-111
count_files(folder) ==
    Cardinality({f \in folder : suffix(f) = ".md" /\ ~name_startswith_dot(f)})

\* lines 139-143: the entries of Done whose name holds today's date
count_done_today(folder, today) ==
    Cardinality({f \in folder : date_in_name(f, today)})

\* the dashboard file: absent, or a document
NoDashboard == [exists |-> FALSE, lines |-> <<>>]
Document(lines) == [exists |-> TRUE, lines |-> lines]

\* lines 125-199: update_dashboard over the document, Needs_Action, the other
\* folders and the date; a missing file is left missing, and an exception of
\* read_text or write_text (io_ok false) is logged and leaves the file as it is
update_dashboard(doc, pending_folder, folders, today, io_ok) ==
    IF ~doc.exists \/ ~io_ok THEN doc
    ELSE Document(rewrite_dashboard(doc.lines,
                     stats_lines(count_files(pending_folder),
                                 count_files(folders["Pending_Approval"]),
                                 count_done_today(folders["Done"], today))))

\* get_pending_items as it would be without the test of processed_files
get_pending_items_unfiltered(pending_folder, processed) ==
    {f \in pending_folder : suffix(f) = ".md"}

\* lines 113-123: the entries of Needs_Action with suffix .md that are not in
\* processed_files
get_pending_items(pending_folder, processed) ==
    {f \in pending_folder : suffix(f) = ".md" /\ f \notin processed}

\* the child process of subprocess.run: whether it runs, and for how long
NoChild == [running |-> FALSE, elapsed |-> 0]

\* the result of the last trigger_qwen call
NoDispatch == [outcome |-> "none", success |-> FALSE]

\* No orchestrator process.
OrchestratorOff ==
    /\ dashboard = NoDashboard
    /\ vault = [f \in Folders |-> {}]
    /\ processed_files = {}
    /\ opc = "off"
    /\ omode = "run"
    /\ argv = <<>>
    /\ default_vault = FALSE
    /\ pending = <<>>
    /\ qwen = NoChild
    /\ cwd = "launch_dir"
    /\ original_dir = "launch_dir"
    /\ last_dispatch = NoDispatch
    /\ last_refresh = <<>>
    /\ cycle_log = <<>>

(***************************************************************************)
(* The initial state: the watcher was constructed (BaseWatcher.__init__    *)
(* and FileSystemWatcher.__init__) over a vault whose state file is absent,*)
(* unreadable, or a snapshot an earlier run saved; run() has started the   *)
(* observer and stands at the top of its loop.                             *)
(***************************************************************************)
InitialStateFiles ==
    {Absent, Truncated}
        \cup {Snapshot(q) : q \in UNION {last_ids(k) : k \in SUBSET StoredIds}}

Init ==
    /\ drop = <<>>
    /\ files_dir = <<>>
    /\ needs_action = <<>>
    /\ state_file \in InitialStateFiles
    /\ day = 0
    /\ processed_ids = load_state(state_file).processed_ids
    /\ processed_hashes = {}
    /\ pc = [t \in Threads |-> IF t = "poll" THEN "check" ELSE "idle"]
    /\ cur = [t \in Threads |-> NoCur]
    /\ items = <<>>
    /\ ids_list = <<>>
    /\ events = <<>>
    /\ stopping = FALSE
    /\ dropped = [c \in Contents \cup {Dir} |-> 0]
    /\ created = [h \in Hashes |-> 0]
    /\ failed = {}
    /\ cycle_new = {}
    /\ OrchestratorOff

(***************************************************************************)
(* The environment.                                                        *)
(***************************************************************************)
\* Somebody puts a file (or, under the name subfolder, a directory) into the
\* drop folder.  The observer queues a created-event for it, unless the
\* watcher is not running or the notification is lost.
Drop(n, c, notified) ==
    /\ drops < MaxDrops
    /\ n \notin DOMAIN drop
    /\ IF n = subfolder THEN c = Dir ELSE c \in Contents
    /\ notified => /\ pc["handler"] # "stopped"
                   /\ ~stopping
                   /\ Len(events) < MaxQueue
    /\ drop' = Put(drop, n, c)
    /\ events' = IF notified THEN Append(events, n) ELSE events
    /\ dropped' = [dropped EXCEPT ![c] = @ + 1]
    /\ UNCHANGED <<files_dir, needs_action, state_file, day, processed_ids,
                   processed_hashes, pc, cur, items, ids_list, stopping,
                   created, failed, cycle_new>>
    /\ UNCHANGED orch_vars

\* Midnight passes: get_timestamp()[:10] changes.
Tick ==
    /\ day < MaxDay
    /\ day' = day + 1
    /\ UNCHANGED <<drop, files_dir, needs_action, state_file, processed_ids,
                   processed_hashes, pc, cur, items, ids_list, events, stopping,
                   dropped, created, failed, cycle_new>>
    /\ UNCHANGED orch_vars

(***************************************************************************)
(* FileSystemWatcher.process_file, first half (lines 129-136): hash the    *)
(* file and return if the hash is known.  Hashing a path that is no        *)
(* regular file raises, which the except clause of line 157 logs.          *)
(***************************************************************************)
return_pc(t) == IF t = "poll" THEN "items" ELSE "idle"

process_file_begin(t, source_path) ==
    IF source_path \in DOMAIN drop /\ is_file(drop[source_path])
    THEN LET file_hash == calculate_hash(drop[source_path])
         IN  IF file_hash \in processed_hashes
             THEN /\ pc' = [pc EXCEPT ![t] = return_pc(t)]
                  /\ cur' = [cur EXCEPT ![t] = NoCur]
             ELSE /\ pc' = [pc EXCEPT ![t] = "work"]
                  /\ cur' = [cur EXCEPT ![t] = <<source_path, file_hash>>]
    ELSE /\ pc' = [pc EXCEPT ![t] = return_pc(t)]
         /\ cur' = [cur EXCEPT ![t] = NoCur]

(***************************************************************************)
(* FileSystemWatcher.create_action_file (lines 160-249) for the item       *)
(* {source, destination, hash}.  io_ok is whether stat() and write_text()  *)
(* succeed; on failure the except clause of line 247 returns None and      *)
(* nothing is written or registered.                                       *)
(***************************************************************************)
create_action_file(source_path, file_hash, io_ok) ==
    IF io_ok
    THEN /\ needs_action' = Put(needs_action, action_file_path(source_path, day),
                                action_file_content(source_path, file_hash, day))
         /\ processed_hashes' = processed_hashes \cup {file_hash}
         /\ created' = [created EXCEPT ![file_hash] = @ + 1]
         /\ failed' = {i \in failed : i[2] # file_hash}
    ELSE /\ failed' = failed \cup {<<source_path, file_hash>>}
         /\ UNCHANGED <<needs_action, processed_hashes, created>>

(***************************************************************************)
(* FileSystemWatcher.process_file, second half (lines 138-158): copy the   *)
(* file to vault/Files, create the action file, remove the file from the   *)
(* drop folder.  copy_ok, create_ok and unlink_ok are whether the I/O of   *)
(* each step succeeds; an exception of copy2 or unlink ends the method in  *)
(* its except clause, the result of create_action_file is not looked at.   *)
(***************************************************************************)
process_file_work(t, copy_ok, create_ok, unlink_ok) ==
    LET source_path == cur[t][1]
        file_hash   == cur[t][2]
    IN  /\ pc' = [pc EXCEPT ![t] = return_pc(t)]
        /\ cur' = [cur EXCEPT ![t] = NoCur]
        /\ IF source_path \in DOMAIN drop /\ is_file(drop[source_path]) /\ copy_ok
           THEN /\ files_dir' = Put(files_dir, source_path, drop[source_path])
                /\ create_action_file(source_path, file_hash, create_ok)
                /\ drop' = IF unlink_ok THEN Remove(drop, source_path) ELSE drop
           ELSE UNCHANGED <<files_dir, needs_action, processed_hashes, created,
                            failed, drop>>

(***************************************************************************)
(* The handler thread: FileDropHandler.on_created, one queued event at a   *)
(* time.                                                                   *)
(***************************************************************************)
HandlerEvent ==
    /\ pc["handler"] = "idle"
    /\ events # <<>>
    /\ events' = Tail(events)
    /\ IF Head(events) \in DOMAIN drop /\ drop[Head(events)] = Dir
       THEN UNCHANGED <<pc, cur>>                        \* event.is_directory
       ELSE process_file_begin("handler", Head(events))
    /\ UNCHANGED <<drop, files_dir, needs_action, state_file, day, processed_ids,
                   processed_hashes, items, ids_list, stopping, dropped,
                   created, failed, cycle_new>>
    /\ UNCHANGED orch_vars

\* IO is the set of outcomes an I/O call can have: TRUE it succeeds, FALSE
\* it raises OSError.
HandlerWork(IO) ==
    /\ pc["handler"] = "work"
    /\ \E copy_ok, create_ok, unlink_ok \in IO :
           process_file_work("handler", copy_ok, create_ok, unlink_ok)
    /\ UNCHANGED <<state_file, day, processed_ids, items, ids_list, events,
                   stopping, dropped, cycle_new>>
    /\ UNCHANGED orch_vars

(***************************************************************************)
(* The poll thread: the while-loop of FileSystemWatcher.run.               *)
(***************************************************************************)
\* the regular, non-hidden files whose hash is not in processed_hashes
new_in_drop ==
    {n \in DOMAIN drop : /\ is_file(drop[n])
                         /\ ~startswith_dot(n)
                         /\ calculate_hash(drop[n]) \notin processed_hashes}

\* the loop as it would be without the try of line 277: the exception
\* leaves run() and ends the process
on_cycle_exception_fatal == "fatal"

\* lines 288-291: an exception of the cycle body is logged, and the loop
\* goes on with its sleep
on_cycle_exception == "sleep"

\* line 279: items = self.check_for_updates(); iterdir() may raise, which
\* the except clause of line 288 logs before the sleep.
PollCheck(IO) ==
    /\ pc["poll"] = "check"
    /\ \E iterdir_ok \in IO :
          IF iterdir_ok
          THEN \E entries \in Orders(DOMAIN drop) :
                  LET r == check_for_updates(entries, drop, <<>>, processed_hashes)
                  IN  /\ items' = r.new_files
                      /\ processed_hashes' = r.processed_hashes
                      /\ pc' = [pc EXCEPT !["poll"] = "items"]
                      /\ cycle_new' = new_in_drop
          ELSE /\ pc' = [pc EXCEPT !["poll"] = on_cycle_exception]
               /\ UNCHANGED <<items, processed_hashes, cycle_new>>
    /\ UNCHANGED <<drop, files_dir, needs_action, state_file, day, processed_ids,
                   cur, ids_list, events, stopping, dropped, created, failed>>
    /\ UNCHANGED orch_vars

\* lines 280-283: for item in items: self.process_file(item)
PollNextItem ==
    /\ pc["poll"] = "items"
    /\ IF items = <<>>
       THEN /\ pc' = [pc EXCEPT !["poll"] = "save"]
            /\ UNCHANGED <<cur, items>>
       ELSE /\ process_file_begin("poll", Head(items))
            /\ items' = Tail(items)
    /\ UNCHANGED <<drop, files_dir, needs_action, state_file, day, processed_ids,
                   processed_hashes, ids_list, events, stopping, dropped,
                   created, failed, cycle_new>>
    /\ UNCHANGED orch_vars

PollWork(IO) ==
    /\ pc["poll"] = "work"
    /\ \E copy_ok, create_ok, unlink_ok \in IO :
           process_file_work("poll", copy_ok, create_ok, unlink_ok)
    /\ UNCHANGED <<state_file, day, processed_ids, items, ids_list, events,
                   stopping, dropped, cycle_new>>
    /\ UNCHANGED orch_vars

(***************************************************************************)
(* BaseWatcher._save_state (lines 105-114) in its two steps: open(..., 'w')*)
(* truncates the state file, json.dump then writes the snapshot.  An       *)
(* OSError of either is logged by the except clause of line 113.           *)
(***************************************************************************)
after_save == IF stopping THEN "join" ELSE "sleep"

SaveOpen(IO) ==
    /\ pc["poll"] = "save"
    /\ \E keep \in last_ids(processed_ids) : ids_list' = keep
    /\ \E open_ok \in IO :
          IF open_ok
          THEN /\ state_file' = Truncated
               /\ pc' = [pc EXCEPT !["poll"] = "dump"]
          ELSE /\ pc' = [pc EXCEPT !["poll"] = after_save]
               /\ UNCHANGED state_file
    /\ cycle_new' = {}
    /\ UNCHANGED <<drop, files_dir, needs_action, day, processed_ids,
                   processed_hashes, cur, items, events, stopping, dropped,
                   created, failed>>
    /\ UNCHANGED orch_vars

SaveDump(IO) ==
    /\ pc["poll"] = "dump"
    /\ \E dump_ok \in IO :
          IF dump_ok THEN state_file' = Snapshot(ids_list) ELSE UNCHANGED state_file
    /\ pc' = [pc EXCEPT !["poll"] = after_save]
    /\ UNCHANGED <<drop, files_dir, needs_action, day, processed_ids,
                   processed_hashes, cur, items, ids_list, events, stopping,
                   dropped, created, failed, cycle_new>>
    /\ UNCHANGED orch_vars

\* line 291: time.sleep(self.check_interval)
Sleep ==
    /\ pc["poll"] = "sleep"
    /\ pc' = [pc EXCEPT !["poll"] = "check"]
    /\ UNCHANGED <<drop, files_dir, needs_action, state_file, day, processed_ids,
                   processed_hashes, cur, items, ids_list, events, stopping,
                   dropped, created, failed, cycle_new>>
    /\ UNCHANGED orch_vars

(***************************************************************************)
(* Stopping and starting the process.                                      *)
(***************************************************************************)
\* the interrupt as it would be without the _save_state() of line 296
Interrupt_no_save ==
    /\ running
    /\ ~stopping
    /\ stopping' = TRUE
    /\ events' = <<>>
    /\ items' = <<>>
    /\ cycle_new' = {}
    /\ pc' = [pc EXCEPT !["poll"] = "join"]
    /\ cur' = [cur EXCEPT !["poll"] = NoCur]
    /\ UNCHANGED <<drop, files_dir, needs_action, state_file, day, processed_ids,
                   processed_hashes, ids_list, dropped, created, failed>>
    /\ UNCHANGED orch_vars

\* lines 293-296: KeyboardInterrupt anywhere in the loop stops the observer
\* and saves the state once more.
Interrupt ==
    /\ running
    /\ ~stopping
    /\ stopping' = TRUE
    /\ events' = <<>>
    /\ items' = <<>>
    /\ cycle_new' = {}
    /\ pc' = [pc EXCEPT !["poll"] = "save"]
    /\ cur' = [cur EXCEPT !["poll"] = NoCur]
    /\ UNCHANGED <<drop, files_dir, needs_action, state_file, day, processed_ids,
                   processed_hashes, ids_list, dropped, created, failed>>
    /\ UNCHANGED orch_vars

\* no process: nothing is left of its memory
Stopped ==
    /\ pc' = [t \in Threads |-> "stopped"]
    /\ cur' = [t \in Threads |-> NoCur]
    /\ items' = <<>>
    /\ ids_list' = <<>>
    /\ events' = <<>>
    /\ stopping' = FALSE
    /\ processed_ids' = {}
    /\ processed_hashes' = {}
    /\ failed' = {}
    /\ cycle_new' = {}

\* lines 302-303: observer.join() waits for the handler thread, then run()
\* returns and the process ends.
Exit ==
    /\ pc["poll"] = "join"
    /\ pc["handler"] = "idle"
    /\ Stopped
    /\ UNCHANGED <<drop, files_dir, needs_action, state_file, day, dropped, created>>
    /\ UNCHANGED orch_vars

\* The process is killed (SIGKILL, power loss) wherever it stands.
Crash ==
    /\ running
    /\ Stopped
    /\ UNCHANGED <<drop, files_dir, needs_action, state_file, day, dropped, created>>
    /\ UNCHANGED orch_vars

\* A new process: the two constructors, then run() up to the loop.
\* An exception that leaves the constructor ends the process with a
\* traceback before run() is reached (pc "fatal").
Start ==
    /\ ~running
    /\ LET loaded == load_state(state_file)
       IN  /\ processed_ids' = loaded.processed_ids
           /\ pc' = IF loaded.raised
                    THEN [t \in Threads |-> IF t = "poll" THEN "fatal" ELSE "stopped"]
                    ELSE [t \in Threads |-> IF t = "poll" THEN "check" ELSE "idle"]
    /\ processed_hashes' = {}
    /\ UNCHANGED <<drop, files_dir, needs_action, state_file, day, cur, items,
                   ids_list, events, stopping, dropped, created, failed, cycle_new>>
    /\ UNCHANGED orch_vars

(***************************************************************************)
(* The orchestrator's cycle: Orchestrator.run (lines 328-357) and          *)
(* Orchestrator.run_once (lines 359-364).                                  *)
(***************************************************************************)
watcher_vars == <<drop, files_dir, state_file, processed_ids, processed_hashes,
                  pc, cur, items, ids_list, events, stopping, dropped, created,
                  failed, cycle_new>>

\* run() as it would be without the try of line 336: the exception ends the
\* loop in the except clause of line 355
on_orch_exception_fatal == "fatal"

\* an exception leaves a step of the cycle: run() catches it (line 349) and
\* backs off, run_once() lets it end the process
on_orch_exception == IF omode = "run" THEN "backoff" ELSE "fatal"

\* the default path of line 372 and the paths a command line can name; of
\* these only "vault" is a directory that exists
DefaultPath == "AI_Employee_Vault"
path_exists(p, default_exists) ==
    IF p = DefaultPath THEN default_exists ELSE p = "vault"

\* the command lines: no argument, a path that exists or not, the flag
\* --once alone, after the path and before it
Argvs == {<<>>, <<"vault">>, <<"missing">>, <<"--once">>, <<"vault", "--once">>,
          <<"--once", "vault">>}

\* lines 369-402 of main(): the vault path is the default when there is no
\* argument at all and sys.argv[1] otherwise, whatever that argument is; a
\* path that does not exist ends the process with sys.exit(1); otherwise
\* run_once() when --once is anywhere among the arguments, else run()
main(args, default_exists) ==
    LET vault_path == IF Len(args) < 1 THEN DefaultPath ELSE args[1]
    IN  IF ~path_exists(vault_path, default_exists)
        THEN [exits |-> TRUE, mode |-> "run"]
        ELSE [exits |-> FALSE,
              mode  |-> IF \E i \in DOMAIN args : args[i] = "--once" THEN "once"
                        ELSE "run"]

\* the exit status of the process once it has ended: 0 when main() returned
\* (run_once() returned, or run() after a KeyboardInterrupt), 1 after
\* sys.exit(1) and after an exception that left main(), 130 after a
\* KeyboardInterrupt that left main(); -1 while it has not ended
exit_status ==
    IF opc \in {"exited", "stopped"} THEN 0
    ELSE IF opc \in {"usage", "fatal"} THEN 1
    ELSE IF opc = "interrupted" THEN 130
    ELSE -1

\* The process is started: main() parses the command line, constructs the
\* Orchestrator and enters run() or run_once(), or exits with the usage
\* message.
OrchMain ==
    /\ opc = "off"
    /\ LET m == main(argv, default_vault)
       IN  /\ opc' = IF m.exits THEN "usage" ELSE "dashboard"
           /\ omode' = m.mode
    /\ UNCHANGED <<needs_action, day, dashboard, vault, processed_files, argv,
                   default_vault, pending, qwen, cwd, original_dir, last_dispatch,
                   last_refresh, cycle_log>>
    /\ UNCHANGED watcher_vars

\* where the process is while it runs
OrchRunning == {"dashboard", "pending", "agent", "approvals", "dashboard_again",
                "sleep", "backoff"}

\* Ctrl-C: KeyboardInterrupt is no Exception, so neither update_dashboard,
\* trigger_qwen nor line 349 catches it; subprocess.run kills its child and
\* raises it again.  run() ends in the clause of line 353 and returns;
\* run_once() has no such clause and the interrupt leaves main().
OrchInterrupt ==
    /\ opc \in OrchRunning
    /\ opc' = IF omode = "run" THEN "stopped" ELSE "interrupted"
    /\ qwen' = [qwen EXCEPT !.running = FALSE]
    /\ UNCHANGED <<needs_action, day, dashboard, vault, processed_files, omode, argv,
                   default_vault, pending, cwd, original_dir, last_dispatch,
                   last_refresh, cycle_log>>
    /\ UNCHANGED watcher_vars

\* update_dashboard(): the first step of a cycle and the last of run_once
OrchDashboard(IO) ==
    /\ opc \in {"dashboard", "dashboard_again"}
    /\ \E io_ok \in IO :
          /\ dashboard' = update_dashboard(dashboard, DOMAIN needs_action, vault, day, io_ok)
          /\ last_refresh' = <<dashboard.exists /\ io_ok, day>>
    /\ cycle_log' = Append(cycle_log, "dashboard")
    /\ opc' = IF opc = "dashboard" THEN "pending" ELSE "exited"
    /\ UNCHANGED <<needs_action, day, vault, processed_files, omode, argv, default_vault, pending, qwen,
                   cwd, original_dir, last_dispatch>>
    /\ UNCHANGED watcher_vars

\* subprocess.run with timeout=300 but without the kill of the child that
\* it does when the timeout expires
subprocess_run_no_kill(outcome) ==
    [raised     |-> outcome \in {"timeout", "not_found", "error"},
     returncode |-> IF outcome = "exit0" THEN 0 ELSE 1,
     running    |-> outcome = "timeout"]

\* lines 233-238: subprocess.run(qwen_cmd, capture_output=True, text=True,
\* timeout=300) returns the exit code of the child, or raises
\* FileNotFoundError or another OSError when no child could be started, or
\* kills the child, waits for it and raises TimeoutExpired
subprocess_run(outcome) ==
    [raised     |-> outcome \in {"timeout", "not_found", "error"},
     returncode |-> IF outcome = "exit0" THEN 0 ELSE 1,
     running    |-> FALSE]

\* trigger_qwen as it would be with 'return True' for line 248
trigger_qwen_unchecked(outcome, dir) ==
    LET result == subprocess_run(outcome)
    IN  IF result.raised
        THEN [success |-> FALSE, cwd |-> "vault", running |-> result.running,
              raised |-> FALSE]
        ELSE [success |-> TRUE, cwd |-> dir, running |-> result.running,
              raised |-> FALSE]

\* lines 211-258 after the chdir of line 216, dir being original_dir: the
\* value returned, the working directory and the child left behind; the three
\* except clauses return False and raise nothing, and only line 240, which
\* they skip, changes the directory back
trigger_qwen(outcome, dir) ==
    LET result == subprocess_run(outcome)
    IN  IF result.raised
        THEN [success |-> FALSE, cwd |-> "vault", running |-> result.running,
              raised |-> FALSE]
        ELSE [success |-> result.returncode = 0, cwd |-> dir,
              running |-> result.running, raised |-> FALSE]

\* process_pending_items as it would be without the test of line 308: the
\* files of pending are added to processed_files whatever trigger_qwen returned
dispatch_returns_marks_always(outcome, dir, batch) ==
    LET r == trigger_qwen(outcome, dir)
    IN  /\ cwd' = r.cwd
        /\ qwen' = [qwen EXCEPT !.running = r.running]
        /\ last_dispatch' = [outcome |-> outcome, success |-> r.success]
        /\ processed_files' = processed_files \cup {batch[i] : i \in DOMAIN batch}
        /\ opc' = IF r.raised THEN on_orch_exception ELSE "approvals"

\* lines 306-314: trigger_qwen, which saved dir as original_dir, has
\* returned; on success every file of pending is added to processed_files
dispatch_returns(outcome, dir, batch) ==
    LET r == trigger_qwen(outcome, dir)
    IN  /\ cwd' = r.cwd
        /\ qwen' = [qwen EXCEPT !.running = r.running]
        /\ last_dispatch' = [outcome |-> outcome, success |-> r.success]
        /\ processed_files' =
              IF r.success /\ ~r.raised
              THEN processed_files \cup {batch[i] : i \in DOMAIN batch}
              ELSE processed_files
        /\ opc' = IF r.raised THEN on_orch_exception ELSE "approvals"

\* process_pending_items up to the start of the child (lines 276-306, 211-238):
\* get_pending_items may raise (iterdir, stat); with nothing pending the step
\* is over; otherwise trigger_qwen changes the directory and starts the
\* child, or fails to start it.
OrchPending(IO, Spawns) ==
    /\ opc = "pending"
    /\ \E list_ok \in IO :
          IF ~list_ok
          THEN /\ opc' = on_orch_exception
               /\ cycle_log' = Append(cycle_log, "pending")
               /\ UNCHANGED <<pending, qwen, cwd, original_dir, last_dispatch,
                              processed_files>>
          ELSE \E order \in Orders(get_pending_items(DOMAIN needs_action, processed_files)) :
                  /\ pending' = order
                  /\ IF order = <<>>
                     THEN /\ opc' = "approvals"
                          /\ cycle_log' = Append(cycle_log, "pending")
                          /\ UNCHANGED <<qwen, cwd, original_dir, last_dispatch,
                                         processed_files>>
                     ELSE /\ original_dir' = cwd
                          /\ cycle_log' = cycle_log \o <<"pending", "qwen">>
                          /\ \E spawn \in Spawns :
                                IF spawn = "started"
                                THEN /\ qwen' = [running |-> TRUE, elapsed |-> 0]
                                     /\ cwd' = "vault"
                                     /\ opc' = "agent"
                                     /\ UNCHANGED <<last_dispatch, processed_files>>
                                ELSE dispatch_returns(spawn, cwd, order)
    /\ UNCHANGED <<needs_action, day, dashboard, vault, omode, argv, default_vault, last_refresh>>
    /\ UNCHANGED watcher_vars

\* the timeout of line 237, 300 seconds, in steps of the child
qwen_timeout == 2

\* The child runs on.
AgentRuns ==
    /\ opc = "agent"
    /\ qwen.running
    /\ qwen.elapsed < qwen_timeout
    /\ qwen' = [qwen EXCEPT !.elapsed = @ + 1]
    /\ UNCHANGED <<needs_action, day, dashboard, vault, processed_files, opc, omode, argv, default_vault,
                   pending, cwd, original_dir, last_dispatch, last_refresh, cycle_log>>
    /\ UNCHANGED watcher_vars

\* The child moves a file from Needs_Action to Done, as the prompt asks it to.
AgentMoves ==
    /\ opc = "agent"
    /\ qwen.running
    /\ \E f \in DOMAIN needs_action :
          /\ needs_action' = Remove(needs_action, f)
          /\ vault' = [vault EXCEPT !["Done"] = @ \cup {f}]
    /\ UNCHANGED <<day, dashboard, processed_files, opc, omode, argv, default_vault, pending, qwen, cwd,
                   original_dir, last_dispatch, last_refresh, cycle_log>>
    /\ UNCHANGED watcher_vars

\* The child exits before the timeout, and subprocess.run returns.
AgentExits ==
    /\ opc = "agent"
    /\ qwen.running
    /\ qwen.elapsed < qwen_timeout
    /\ \E outcome \in {"exit0", "nonzero"} : dispatch_returns(outcome, original_dir, pending)
    /\ UNCHANGED <<needs_action, day, dashboard, vault, omode, argv, default_vault, pending, original_dir,
                   last_refresh, cycle_log>>
    /\ UNCHANGED watcher_vars

\* The child still runs when the timeout is over.
AgentTimesOut ==
    /\ opc = "agent"
    /\ qwen.running
    /\ qwen.elapsed = qwen_timeout
    /\ dispatch_returns("timeout", original_dir, pending)
    /\ UNCHANGED <<needs_action, day, dashboard, vault, omode, argv, default_vault, pending, original_dir,
                   last_refresh, cycle_log>>
    /\ UNCHANGED watcher_vars

\* lines 316-326: check_approvals lists Approved and logs its .md entries;
\* iterdir may raise.  Then run() sleeps (line 347) and run_once() goes on
\* to its second update_dashboard (line 364).
OrchApprovals(IO) ==
    /\ opc = "approvals"
    /\ cycle_log' = Append(cycle_log, "approvals")
    /\ \E list_ok \in IO :
          opc' = IF ~list_ok THEN on_orch_exception
                 ELSE IF omode = "run" THEN "sleep" ELSE "dashboard_again"
    /\ UNCHANGED <<needs_action, day, dashboard, vault, processed_files, omode, argv, default_vault, pending,
                   qwen, cwd, original_dir, last_dispatch, last_refresh>>
    /\ UNCHANGED watcher_vars

\* line 347: time.sleep(self.check_interval), then the next cycle
OrchSleep ==
    /\ opc = "sleep"
    /\ opc' = "dashboard"
    /\ cycle_log' = <<>>
    /\ UNCHANGED <<needs_action, day, dashboard, vault, processed_files, omode, argv, default_vault, pending,
                   qwen, cwd, original_dir, last_dispatch, last_refresh>>
    /\ UNCHANGED watcher_vars

\* lines 349-351: the exception is logged; time.sleep(10), then the next cycle
OrchBackoff ==
    /\ opc = "backoff"
    /\ opc' = "dashboard"
    /\ cycle_log' = <<>>
    /\ UNCHANGED <<needs_action, day, dashboard, vault, processed_files, omode, argv, default_vault, pending,
                   qwen, cwd, original_dir, last_dispatch, last_refresh>>
    /\ UNCHANGED watcher_vars

\* A watcher process writes an action file into Needs_Action.
WatcherCreates ==
    /\ Cardinality(DOMAIN needs_action) < MaxPending
    /\ \E n \in {m \in Names : m # subfolder} :
          needs_action' = Put(needs_action, action_file_path(n, day),
                              action_file_content(n, calculate_hash(1), day))
    /\ UNCHANGED <<day, dashboard, vault, processed_files, opc, omode, argv, default_vault, pending, qwen,
                   cwd, original_dir, last_dispatch, last_refresh, cycle_log>>
    /\ UNCHANGED watcher_vars

DropFile == \E n \in Names, c \in Contents \cup {Dir}, notified \in BOOLEAN :
                Drop(n, c, notified)

\* Every behaviour of the watcher: I/O may fail, the process may be
\* interrupted, killed and started again.
Next ==
    \/ DropFile
    \/ Tick
    \/ HandlerEvent
    \/ HandlerWork(BOOLEAN)
    \/ PollCheck(BOOLEAN)
    \/ PollNextItem
    \/ PollWork(BOOLEAN)
    \/ SaveOpen(BOOLEAN)
    \/ SaveDump(BOOLEAN)
    \/ Sleep
    \/ Interrupt
    \/ Exit
    \/ Crash
    \/ Start

Spec == Init /\ [][Next]_vars

\* One process whose I/O never fails and which nobody stops.
NextNoFault ==
    \/ DropFile
    \/ Tick
    \/ HandlerEvent
    \/ HandlerWork({TRUE})
    \/ PollCheck({TRUE})
    \/ PollNextItem
    \/ PollWork({TRUE})
    \/ SaveOpen({TRUE})
    \/ SaveDump({TRUE})
    \/ Sleep

SpecNoFault == Init /\ [][NextNoFault]_vars

\* Processes whose I/O never fails and which end only by KeyboardInterrupt,
\* that is after the final _save_state, before the next one starts.
NextGraceful ==
    \/ NextNoFault
    \/ Interrupt
    \/ Exit
    \/ Start

SpecGraceful == Init /\ [][NextGraceful]_vars

(***************************************************************************)
(* check_for_updates on its own: the poll thread stands at the top of its  *)
(* loop, the drop folder holds any files and directories, and any hashes   *)
(* and ids are registered.                                                 *)
(***************************************************************************)
DropFolders ==
    UNION {[S -> Contents \cup {Dir}] : S \in SUBSET Names}

InitCheckForUpdates ==
    /\ drop \in {f \in DropFolders :
                    \A n \in DOMAIN f : (f[n] = Dir) <=> (n = subfolder)}
    /\ files_dir = <<>>
    /\ needs_action = <<>>
    /\ state_file = Absent
    /\ day = 0
    /\ processed_ids \in SUBSET StoredIds
    /\ processed_hashes \in SUBSET Hashes
    /\ pc = [t \in Threads |-> IF t = "poll" THEN "check" ELSE "idle"]
    /\ cur = [t \in Threads |-> NoCur]
    /\ items = <<>>
    /\ ids_list = <<>>
    /\ events = <<>>
    /\ stopping = FALSE
    /\ dropped = [c \in Contents \cup {Dir} |-> 0]
    /\ created = [h \in Hashes |-> 0]
    /\ failed = {}
    /\ cycle_new = {}
    /\ OrchestratorOff

NextCheckForUpdates == PollCheck(BOOLEAN)

SpecCheckForUpdates == InitCheckForUpdates /\ [][NextCheckForUpdates]_vars

(***************************************************************************)
(* The loop of run() alone, with I/O that may fail, up to its end by       *)
(* KeyboardInterrupt: the poll thread stands at the top of the loop, or in *)
(* the second half of process_file for a file of the drop folder (which it *)
(* reaches when the file changed after check_for_updates listed it); the   *)
(* drop folder holds anything and nothing is dropped meanwhile.            *)
(***************************************************************************)
InitLoop ==
    /\ drop \in {f \in DropFolders :
                    \A n \in DOMAIN f : (f[n] = Dir) <=> (n = subfolder)}
    /\ files_dir = <<>>
    /\ needs_action = <<>>
    /\ state_file \in InitialStateFiles
    /\ day = 0
    /\ processed_ids = load_state(state_file).processed_ids
    /\ processed_hashes = {}
    /\ \E c \in {NoCur} \cup {<<n, calculate_hash(drop[n])>> :
                                n \in {m \in DOMAIN drop : /\ is_file(drop[m])
                                                          /\ ~startswith_dot(m)}} :
          /\ cur = [t \in Threads |-> IF t = "poll" THEN c ELSE NoCur]
          /\ pc = [t \in Threads |-> IF t = "handler" THEN "idle"
                                     ELSE IF c = NoCur THEN "check" ELSE "work"]
    /\ items = <<>>
    /\ ids_list = <<>>
    /\ events = <<>>
    /\ stopping = FALSE
    /\ dropped = [c \in Contents \cup {Dir} |-> 0]
    /\ created = [h \in Hashes |-> 0]
    /\ failed = {}
    /\ cycle_new = {}
    /\ OrchestratorOff

NextLoop ==
    \/ PollCheck(BOOLEAN)
    \/ PollNextItem
    \/ PollWork(BOOLEAN)
    \/ SaveOpen(BOOLEAN)
    \/ SaveDump(BOOLEAN)
    \/ Sleep
    \/ Interrupt
    \/ Exit

SpecLoop == InitLoop /\ [][NextLoop]_vars

(***************************************************************************)
(* The constructor alone: no process runs, the drop folder holds anything, *)
(* and the state file is absent, cut short, a JSON document of another     *)
(* shape, or a snapshot (an array of at most MaxStored ids, repetitions    *)
(* included); a process is started and killed.                             *)
(***************************************************************************)
RECURSIVE SeqsUpTo(_, _)
SeqsUpTo(S, n) ==
    IF n = 0 THEN {<<>>}
    ELSE LET shorter == SeqsUpTo(S, n - 1)
         IN  shorter \cup {Append(q, x) : q \in shorter, x \in S}

MaxStored == StateCap + 1

StateFiles ==
    {Absent, Truncated, NotAnObject, NoIdsKey}
        \cup {Snapshot(q) : q \in SeqsUpTo(StoredIds, MaxStored)}

InitLoadState ==
    /\ drop \in {f \in DropFolders :
                    \A n \in DOMAIN f : (f[n] = Dir) <=> (n = subfolder)}
    /\ files_dir = <<>>
    /\ needs_action = <<>>
    /\ state_file \in StateFiles
    /\ day = 0
    /\ processed_ids = {}
    /\ processed_hashes = {}
    /\ pc = [t \in Threads |-> "stopped"]
    /\ cur = [t \in Threads |-> NoCur]
    /\ items = <<>>
    /\ ids_list = <<>>
    /\ events = <<>>
    /\ stopping = FALSE
    /\ dropped = [c \in Contents \cup {Dir} |-> 0]
    /\ created = [h \in Hashes |-> 0]
    /\ failed = {}
    /\ cycle_new = {}
    /\ OrchestratorOff

NextLoadState ==
    \/ Start
    \/ Crash

SpecLoadState == InitLoadState /\ [][NextLoadState]_vars

(***************************************************************************)
(* The orchestrator alone.  No watcher process runs; what a watcher does   *)
(* to Needs_Action is the action WatcherCreates.                           *)
(***************************************************************************)
WatcherOff ==
    /\ drop = <<>>
    /\ files_dir = <<>>
    /\ state_file = Absent
    /\ processed_ids = {}
    /\ processed_hashes = {}
    /\ pc = [t \in Threads |-> "stopped"]
    /\ cur = [t \in Threads |-> NoCur]
    /\ items = <<>>
    /\ ids_list = <<>>
    /\ events = <<>>
    /\ stopping = FALSE
    /\ dropped = [c \in Contents \cup {Dir} |-> 0]
    /\ created = [h \in Hashes |-> 0]
    /\ failed = {}
    /\ cycle_new = {}

\* An orchestrator process has been constructed and enters run() or
\* run_once().
OrchestratorStarts ==
    /\ processed_files = {}
    /\ opc = "dashboard"
    /\ omode \in {"run", "once"}
    /\ argv = (IF omode = "once" THEN <<"vault", "--once">> ELSE <<"vault">>)
    /\ default_vault = FALSE
    /\ pending = <<>>
    /\ qwen = NoChild
    /\ cwd = "launch_dir"
    /\ original_dir = "launch_dir"
    /\ last_dispatch = NoDispatch
    /\ last_refresh = <<>>
    /\ cycle_log = <<>>

\* the document with blanks around its markers and separators
pad_all(doc) ==
    [i \in DOMAIN doc |-> IF doc[i] \in {Marker, Separator} THEN padded(doc[i])
                          ELSE doc[i]]

\* the dashboard documents of up to MaxDocLen lines: any number of start
\* markers and separators anywhere among other lines
Documents ==
    LET shapes == SeqsUpTo({Marker, Separator, Text}, MaxDocLen) \ {<<>>}
    IN  {<<EmptyLine>>} \cup shapes \cup {pad_all(d) : d \in shapes}

(***************************************************************************)
(* update_dashboard alone: cycles of an orchestrator with nothing pending, *)
(* over every dashboard document, with a Pending_Approval and a Done       *)
(* folder that nobody changes, while the days pass.                        *)
(***************************************************************************)
InitDashboard ==
    /\ WatcherOff
    /\ OrchestratorStarts
    /\ needs_action = <<>>
    /\ day = 0
    /\ dashboard \in {NoDashboard} \cup {Document(d) : d \in Documents}
    /\ vault = [f \in Folders |->
                   IF f = "Pending_Approval" THEN {approval_md, approval_txt, hidden_md}
                   ELSE IF f = "Done" THEN {done_md} ELSE {}]

NextDashboard ==
    \/ OrchDashboard(BOOLEAN)
    \/ OrchPending({TRUE}, {"started"})
    \/ OrchApprovals({TRUE})
    \/ OrchSleep
    \/ Tick

SpecDashboard == InitDashboard /\ [][NextDashboard]_vars

(***************************************************************************)
(* The orchestrator with its agent: I/O may fail, the child may not start, *)
(* exit with any code or run into the timeout, and watchers add action     *)
(* files at any time.                                                      *)
(***************************************************************************)
TemplateDashboard == Document(<<Text, Marker, Text, Separator, Text>>)

InitOrchestrator ==
    /\ WatcherOff
    /\ OrchestratorStarts
    /\ needs_action = <<>>
    /\ day = 0
    /\ dashboard \in {NoDashboard, TemplateDashboard}
    /\ vault = [f \in Folders |-> {}]

NextOrchestrator ==
    \/ OrchDashboard(BOOLEAN)
    \/ OrchPending(BOOLEAN, {"started", "not_found", "error"})
    \/ AgentRuns
    \/ AgentMoves
    \/ AgentExits
    \/ AgentTimesOut
    \/ OrchApprovals(BOOLEAN)
    \/ OrchSleep
    \/ OrchBackoff
    \/ WatcherCreates

SpecOrchestrator == InitOrchestrator /\ [][NextOrchestrator]_vars

(***************************************************************************)
(* The loop of run() alone, with interrupts: the orchestrator of           *)
(* SpecOrchestrator, started without --once over the template dashboard.   *)
(***************************************************************************)
InitRun ==
    /\ WatcherOff
    /\ OrchestratorStarts
    /\ omode = "run"
    /\ needs_action = <<>>
    /\ day = 0
    /\ dashboard = TemplateDashboard
    /\ vault = [f \in Folders |-> {}]

NextRun ==
    \/ NextOrchestrator
    \/ OrchInterrupt

SpecRun == InitRun /\ [][NextRun]_vars

(***************************************************************************)
(* The orchestrator from its command line: the process is started with any *)
(* of the command lines, the default vault being there or not.             *)
(***************************************************************************)
InitMain ==
    /\ WatcherOff
    /\ needs_action = <<>>
    /\ day = 0
    /\ dashboard = TemplateDashboard
    /\ vault = [f \in Folders |-> {}]
    /\ processed_files = {}
    /\ opc = "off"
    /\ omode = "run"
    /\ argv \in Argvs
    /\ default_vault \in BOOLEAN
    /\ pending = <<>>
    /\ qwen = NoChild
    /\ cwd = "launch_dir"
    /\ original_dir = "launch_dir"
    /\ last_dispatch = NoDispatch
    /\ last_refresh = <<>>
    /\ cycle_log = <<>>

NextMain ==
    \/ OrchMain
    \/ NextOrchestrator
    \/ OrchInterrupt

SpecMain == InitMain /\ [][NextMain]_vars

(***************************************************************************)
(* Claims.                                                                 *)
(***************************************************************************)
\* the action files in Needs_Action written for the file n
action_files_of(n) ==
    {p \in DOMAIN needs_action : needs_action[p].source = n}

poll_returns == pc["poll"] = "check" /\ pc'["poll"] = "items"

\* C1: when the for-loop of a periodic cycle has ended (the poll thread is
\* about to save the state), every regular, non-hidden file with unseen
\* content that was in the drop folder at the cycle's check_for_updates has a
\* pending action file and is gone from the drop folder.
C1_CycleMaterializes ==
    pc["poll"] = "save" /\ ~stopping
        => \A n \in cycle_new :
               /\ n \notin DOMAIN drop
               /\ \E p \in action_files_of(n) : needs_action[p].status = "pending"

\* C2: processed_hashes gains an id only in a step in which create_action_file
\* wrote the action file of that id; check_for_updates in particular adds none.
C2_OnlyCreateRegisters ==
    [][processed_hashes' \subseteq
           processed_hashes \cup {h \in Hashes : created'[h] > created[h]}]_vars

\* C3: no file that check_for_updates returns has a hash that was in
\* processed_hashes when it was called, and no two files it returns have the
\* same hash.  (processed_hashes is the set that holds content hashes;
\* processed_ids never holds one.)
C3_ReturnsOnlyNew ==
    [][poll_returns =>
          /\ \A i \in 1 .. Len(items') :
                 calculate_hash(drop[items'[i]]) \notin processed_hashes
          /\ \A i, j \in 1 .. Len(items') :
                 i # j => calculate_hash(drop[items'[i]]) # calculate_hash(drop[items'[j]])]_vars

\* C3 witness: a call has returned one of two files of equal content, whose
\* hash the call found unregistered.
C3_Witness ==
    /\ pc["poll"] = "items"
    /\ Len(items) = 1
    /\ \E n \in DOMAIN drop :
           n # items[1] /\ n \in cycle_new /\ items[1] \in cycle_new
              /\ drop[n] = drop[items[1]]

quiescent ==
    /\ events = <<>>
    /\ pc["handler"] = "idle"
    /\ pc["poll"] = "sleep"

\* C4: no work-item id (content hash) ever gets a second action file, whatever
\* files are dropped and however often the watcher saves its state, is
\* stopped after a final save and is started again.
C4_AtMostOncePerId ==
    \A h \in Hashes : created[h] <= 1

\* C5: in one watcher process whose I/O works, once two or more files of the
\* same content have been dropped and both threads have come to rest with
\* every such file either gone or registered as processed, exactly one
\* action file has been created for that content.
C5_ExactlyOnePerContent ==
    \A c \in Contents :
        (/\ dropped[c] >= 2
         /\ quiescent
         /\ \A n \in DOMAIN drop :
                drop[n] = c => calculate_hash(c) \in processed_hashes)
            => created[calculate_hash(c)] = 1

\* C6: in the step in which create_action_file returns None for an item, the
\* item's hash is not in the in-memory processed set, whichever thread made
\* the call.  (The snapshot holds processed_ids, to which the file watcher
\* adds nothing; the claim fails on the in-memory set.)
C6_FailureNotRegistered ==
    [][\A i \in failed' \ failed : i[2] \notin processed_hashes']_vars

\* C7: at the top of the poll loop, every item whose create_action_file
\* returned None (and has not succeeded since) is offered by
\* check_for_updates: its file is in the drop folder with that content and
\* its hash is unregistered.
C7_FailedIsOfferedAgain ==
    pc["poll"] = "check"
        => \A i \in failed :
               /\ i[1] \in DOMAIN drop
               /\ is_file(drop[i[1]])
               /\ calculate_hash(drop[i[1]]) = i[2]
               /\ i[2] \notin processed_hashes

\* C8: writing an action file leaves every action file of another work item
\* in Needs_Action as it was.
C8_NoOverwrite ==
    [][created' # created =>
          \A p \in DOMAIN needs_action :
              /\ p \in DOMAIN needs_action'
              /\ needs_action'[p].hash = needs_action[p].hash]_vars

\* C9: neither the in-memory processed sets nor the persisted snapshot ever
\* hold more ids than the cap.
C9_CapRespected ==
    /\ Cardinality(processed_ids) <= StateCap
    /\ Cardinality(processed_hashes) <= StateCap
    /\ Len(state_file.processed_ids) <= StateCap

\* C10: no step leaves the state file empty or truncated: a file that was
\* absent or a complete snapshot is absent or a complete snapshot afterwards.
C10_SaveIsAtomic ==
    [][state_file.kind # "truncated" => state_file'.kind # "truncated"]_vars

\* C11: starting a process never fails on the state file: whatever the file
\* holds, the constructor returns and run() reaches its loop, with no
\* processed id when the file is missing or is no snapshot, and with exactly
\* the ids listed in the snapshot otherwise.
C11_LoadNeverFatal ==
    [][(~running /\ running') =>
          /\ pc'["poll"] = "check"
          /\ processed_ids' =
                 IF state_file.kind = "snapshot"
                 THEN {x \in StoredIds :
                         \E i \in DOMAIN state_file.processed_ids :
                             state_file.processed_ids[i] = x}
                 ELSE {}]_vars

C11_Witness ==
    /\ pc["poll"] = "check"
    /\ state_file.kind \in {"truncated", "array"}
    /\ processed_ids = {}

\* the poll thread arrives at p
enters(p) == pc["poll"] # p /\ pc'["poll"] = p

\* the ids a JSON array lists
ids_of(q) == {q[i] : i \in DOMAIN q}

LoopPcs == {"check", "items", "work", "save", "dump", "sleep"}

\* C13: whatever fails inside a cycle, the poll thread stays in the loop: a
\* check_for_updates that raised is followed by the sleep, a process_file
\* that failed by the next item, a save that failed by the sleep, and the
\* sleep by the next check_for_updates; the thread leaves the loop, and
\* the process ends, only after a KeyboardInterrupt.
C13_ExceptionKeepsLoop ==
    [][/\ (pc["poll"] \in LoopPcs /\ ~stopping') => pc'["poll"] \in LoopPcs
       /\ (pc["poll"] = "check" /\ ~stopping') => pc'["poll"] \in {"check", "items", "sleep"}
       /\ (pc["poll"] = "work" /\ ~stopping') => pc'["poll"] \in {"work", "items"}
       /\ (pc["poll"] = "save" /\ ~stopping') => pc'["poll"] \in {"save", "dump", "sleep"}
       /\ (pc["poll"] = "dump" /\ ~stopping') => pc'["poll"] \in {"dump", "sleep"}
       /\ (pc["poll"] = "sleep" /\ ~stopping') => pc'["poll"] \in {"sleep", "check"}
       /\ (running /\ ~running') => stopping]_vars

C13_Witness ==
    /\ failed # {}
    /\ ~stopping
    /\ pc["poll"] = "check"

\* this step is a call of update_dashboard
refreshes ==
    /\ Len(cycle_log') = Len(cycle_log) + 1
    /\ cycle_log'[Len(cycle_log')] = "dashboard"

first_line(lines, l, k) ==
    LET hits == {i \in k .. Len(lines) : strip(lines[i]) = l}
    IN  IF hits = {} THEN 0 ELSE CHOOSE h \in hits : \A i \in hits : h <= i

\* C15: a call of update_dashboard that writes the document keeps every
\* line outside the stats region, in order.  When the document has a region
\* (a start marker and the first separator after it), the new document is
\* the lines before the marker, the new stats, and the lines after that
\* separator.  When it has no start marker, the new document is the old one
\* with the stats inserted after the first separator past the minimum
\* offset, or the old one unchanged when there is no such separator.
C15_OnlyStatsRegion ==
    [][(refreshes /\ last_refresh'[1]) =>
          LET lines == dashboard.lines
              stats == stats_lines(count_files(DOMAIN needs_action),
                                   count_files(vault["Pending_Approval"]),
                                   count_done_today(vault["Done"], day))
              m == first_line(lines, Marker, 1)
              e == IF m = 0 THEN 0 ELSE first_line(lines, Separator, m + 1)
              i == first_line(lines, Separator, InsertAfterLine + 2)
          IN  /\ (m # 0 /\ e # 0) =>
                    dashboard'.lines = SubSeq(lines, 1, m - 1) \o stats
                                          \o SubSeq(lines, e + 1, Len(lines))
              /\ (m = 0 /\ i # 0) =>
                    dashboard'.lines = SubSeq(lines, 1, i) \o stats
                                          \o SubSeq(lines, i + 1, Len(lines))
              /\ (m = 0 /\ i = 0) => dashboard'.lines = lines]_vars

\* this step ends a call of trigger_qwen: the child has exited or was
\* killed by the timeout, or no child could be started (an interrupt does not
\* end the call, it leaves it)
qwen_returns ==
    \/ opc = "agent" /\ opc' \notin {"agent", "stopped", "interrupted"}
    \/ /\ opc = "pending" /\ opc' # "agent"
       /\ Len(cycle_log') = Len(cycle_log) + 2

\* the working directory when the call that ends in this step began
dir_before_call == IF opc = "agent" THEN original_dir ELSE cwd

\* the calls of subprocess.run in the running cycle
qwen_calls(log) == Len(SelectSeq(log, LAMBDA x : x = "qwen"))

\* C16: when a call of trigger_qwen ends, whatever its outcome, the working
\* directory is what it was when the call began; and the working directory
\* is the vault only while a call is in progress.
C16_CwdRestored ==
    [][/\ qwen_returns => cwd' = dir_before_call
       /\ (opc' # "agent") => cwd' # "vault"]_vars

\* C17: a call of trigger_qwen returns to process_pending_items, never
\* raises, with True exactly when the child exited with code 0 (so False for
\* a nonzero code, a timeout, a missing executable and any other error), after
\* one call of subprocess.run; and files are marked processed only then.
C17_SuccessIffExitZero ==
    [][/\ qwen_returns =>
             /\ opc' = "approvals"
             /\ last_dispatch'.outcome \in {"exit0", "nonzero", "timeout",
                                            "not_found", "error"}
             /\ last_dispatch'.success <=> last_dispatch'.outcome = "exit0"
             /\ qwen_calls(cycle_log') = 1
       /\ processed_files' # processed_files =>
             (qwen_returns /\ last_dispatch'.outcome = "exit0")]_vars

C17_Witness ==
    /\ opc = "approvals"
    /\ pending # <<>>
    /\ last_dispatch = [outcome |-> "nonzero", success |-> FALSE]
    /\ processed_files = {}

\* C18: a child never runs longer than the timeout: when the timeout is over
\* and the child still runs, the next step of the orchestrator is the return
\* of trigger_qwen with False, and whenever trigger_qwen has returned the
\* child it started runs no more.
C18_TimeoutKillsChild ==
    [][/\ qwen'.running => (opc' = "agent" /\ qwen'.elapsed <= qwen_timeout)
       /\ (opc = "agent" /\ qwen.elapsed = qwen_timeout /\ <<opc, qwen>>' # <<opc, qwen>>) =>
             /\ qwen_returns
             /\ last_dispatch' = [outcome |-> "timeout", success |-> FALSE]
             /\ ~qwen'.running]_vars

C18_Witness ==
    /\ opc = "approvals"
    /\ last_dispatch = [outcome |-> "timeout", success |-> FALSE]
    /\ qwen = [running |-> FALSE, elapsed |-> qwen_timeout]

\* C19: a cycle of run() reaches its sleep, and the cycle of run_once() its
\* end, only after update_dashboard, process_pending_items, check_approvals
\* and update_dashboard again, in this order; and check_approvals changes
\* no folder.
C19_CycleOrder ==
    [][/\ ((opc # "sleep" /\ opc' = "sleep") \/ (opc # "exited" /\ opc' = "exited")) =>
             SelectSeq(cycle_log', LAMBDA x : x # "qwen")
                = <<"dashboard", "pending", "approvals", "dashboard">>
       /\ (opc = "approvals" /\ opc' # "approvals") =>
             UNCHANGED <<needs_action, vault, dashboard>>]_vars

\* C20: within one orchestrator process a file, once in processed_files,
\* stays there; a file enters processed_files only in the step in which a
\* trigger_qwen call whose manifest lists it returns True, and then every
\* file of that manifest enters; and no manifest lists a file of
\* processed_files, whether or not the file is still in Needs_Action.
C20_DispatchedOnce ==
    [][/\ processed_files \subseteq processed_files'
       /\ \A f \in processed_files' \ processed_files :
             /\ qwen_returns
             /\ last_dispatch'.success
             /\ \E i \in DOMAIN pending : pending[i] = f
       /\ (qwen_returns /\ last_dispatch'.outcome = "exit0") =>
             \A i \in DOMAIN pending : pending[i] \in processed_files'
       /\ pending' # pending =>
             \A i \in DOMAIN pending' : pending'[i] \notin processed_files]_vars

C20_Witness ==
    /\ opc = "agent"
    /\ \E f \in processed_files : f \in DOMAIN needs_action
    /\ \A i \in DOMAIN pending : pending[i] \notin processed_files

\* the files of a manifest
files_of(manifest) == {manifest[i] : i \in DOMAIN manifest}

\* this step ends get_pending_items of a cycle: with a list (the manifest,
\* which may be empty), or with an exception of iterdir or stat
collects == opc = "pending" /\ opc' # "pending"
collect_raises == collects /\ opc' \in {"backoff", "fatal"}

\* the last call of trigger_qwen failed; pending is still its batch
dispatch_failed == last_dispatch.outcome # "none" /\ ~last_dispatch.success

pending_rows(doc) ==
    {doc.lines[i] : i \in {k \in DOMAIN doc.lines :
                              /\ Len(doc.lines[k]) = 4
                              /\ doc.lines[k][1] = "| Pending Tasks |"}}

\* the row "| Pending Tasks | 0 | Clear |"
pending_clear == <<"| Pending Tasks |", 0, 0, <<"Clear">>>>

\* this step ends a cycle of run() or the cycle of run_once()
cycle_ends ==
    \/ opc # "sleep" /\ opc' = "sleep"
    \/ opc # "exited" /\ opc' = "exited"

\* what a cycle does to the agent: when get_pending_items returns nothing,
\* no call of subprocess.run; otherwise one call, for a manifest that lists
\* every pending file (every .md file of Needs_Action that is not in
\* processed_files) once
one_dispatch_of_all ==
    (collects /\ ~collect_raises) =>
        /\ files_of(pending') = get_pending_items(DOMAIN needs_action, processed_files)
        /\ Len(pending') = Cardinality(files_of(pending'))
        /\ qwen_calls(cycle_log') = (IF pending' = <<>> THEN 0 ELSE 1)
        /\ (opc' = "agent") => pending' # <<>>

OrchLoopPcs == {"dashboard", "pending", "agent", "approvals", "sleep", "backoff"}

\* C23: whatever raises inside a cycle of run(), the process stays in the
\* loop: a step of a cycle leads to another place in the loop or, by an
\* interrupt, to the graceful stop, never to the fatal end or out of run();
\* an exception of get_pending_items or check_approvals leads to the
\* backoff, and the backoff to the start of a new cycle.
C23_CycleExceptionKeepsLoop ==
    [][/\ (opc \in OrchLoopPcs) => (opc' \in OrchLoopPcs \cup {"stopped"})
       /\ (opc \in {"pending", "approvals"} /\ opc' \notin
               {opc, "agent", "approvals", "sleep", "stopped"}) => opc' = "backoff"
       /\ (opc = "backoff" /\ opc' \notin {"backoff", "stopped"}) =>
             (opc' = "dashboard" /\ cycle_log' = <<>>)
       /\ (opc' = "stopped" /\ opc # "stopped") => ~qwen'.running]_vars

\* C23 witness: a process that has dispatched a batch in an earlier cycle
\* has caught an exception of a later cycle and backs off.
C23_Witness ==
    /\ opc = "backoff"
    /\ omode = "run"
    /\ processed_files # {}

\* the arguments that are no flag
positional(args) == SelectSeq(args, LAMBDA a : a # "--once")

\* --once is given, with a workspace path that exists, or without a path
\* while the default path exists
once_given ==
    /\ \E i \in DOMAIN argv : argv[i] = "--once"
    /\ IF positional(argv) = <<>> THEN default_vault
       ELSE path_exists(positional(argv)[1], default_vault)

\* C24: a process started with --once enters run_once(), never the loop of
\* run(); it calls the agent at most once; and unless it is interrupted it
\* ends only after one full cycle, with exit status 0.
C24_OnceExitsZero ==
    [][once_given =>
          /\ (opc = "off" /\ opc' # "off") => (opc' = "dashboard" /\ omode' = "once")
          /\ opc' \notin {"sleep", "backoff", "stopped"}
          /\ qwen_calls(cycle_log') <= 1
          /\ (exit_status = -1 /\ exit_status' # -1 /\ opc' # "interrupted") =>
                /\ exit_status' = 0
                /\ SelectSeq(cycle_log', LAMBDA x : x # "qwen")
                      = <<"dashboard", "pending", "approvals", "dashboard">>]_vars

\* the paths under which this step puts an action file into Needs_Action
arrives == DOMAIN needs_action' \ DOMAIN needs_action

\* C25: an action file that a watcher creates can still be listed: at the
\* moment it appears in Needs_Action its path is not in processed_files
\* (which never shrinks and which every manifest leaves out), also when an
\* earlier file of that path was dispatched and moved away.
C25_CreatedCanBeListed ==
    [][\A f \in arrives : f \notin processed_files']_vars

\* C26: an action file that appears in Needs_Action while the child of a
\* dispatch runs is none of the files that the success of this dispatch
\* marks: its path is not in the batch, and the step in which the dispatch
\* returns marks the files of the batch only.
C26_ArrivalNotMarked ==
    [][/\ opc = "agent" => \A f \in arrives : f \notin files_of(pending)
       /\ qwen_returns => processed_files' \subseteq processed_files \cup files_of(pending)]_vars

\* C27: in the step in which a file leaves the drop folder, the watcher has
\* written an action file for it: create_action_file has registered one more
\* file for its hash, and Needs_Action holds an action file of that source
\* and hash.
C27_RemovedOnlyIfCreated ==
    [][\A n \in DOMAIN drop \ DOMAIN drop' :
          /\ created'[calculate_hash(drop[n])] = created[calculate_hash(drop[n])] + 1
          /\ \E p \in DOMAIN needs_action' :
                /\ needs_action'[p].source = n
                /\ needs_action'[p].hash = calculate_hash(drop[n])]_vars

====
